---- MODULE Spec2Model ----
(***************************************************************************)
(* Authorization decorators (sentry.api.decorators), the sudo middleware   *)
(* (sentry.middleware.sudo), the restricted queryset                       *)
(* (sentry.db.models.manager.base_query_set) and the group tag-values      *)
(* endpoint exercised by tests/sentry/api/endpoints/                       *)
(* test_group_tagkey_values.py.                                            *)
(***************************************************************************)
EXTENDS Integers, Sequences, FiniteSets, TLC

VARIABLES
    request,    \* the request being handled (user snapshot, auth, sudo flag)
    mw,         \* <<>> or <<r>>: what SudoMiddleware.has_sudo_privileges did for request
    call,       \* <<>> or <<c>>: the last call through a decorator, for request
    rejected,   \* history: the decorators that have raised their error so far
    qs,         \* the queryset the caller holds
    qcall,      \* <<>> or <<c>>: the last method call on qs
    events,     \* the stored events, oldest first
    logged_in,  \* whether the test client is logged in
    response    \* <<>> or <<r>>: the last response of the tag-values endpoint

authVars == <<request, mw, call, rejected>>
qsVars   == <<qs, qcall>>
tagVars  == <<events, logged_in, response>>
vars     == <<request, mw, call, rejected, qs, qcall, events, logged_in, response>>

-----------------------------------------------------------------------------
(* Bounds *)

\* the longest positional argument list passed to a view or a query method
MaxArgs == 1
\* the longest chain of query operations on one queryset
MaxChain == 2
\* the most events stored
MaxEvents == 3

-----------------------------------------------------------------------------
(* Requests and users as the decorators and the middleware read them *)

\* user.password: the empty string, an unusable marker ("!..."), or a usable hash
Passwords == {"empty", "unusable", "usable"}

Emails == {"a@example.com"}

Users ==
    [is_authenticated : BOOLEAN, password : Passwords, verified_emails : SUBSET Emails]

\* request.auth: nothing (session), an ApiKey, an ApiToken, or another auth object
AuthKinds == {"None", "ApiKey", "ApiToken", "Other"}

\* is_sudo: what request.is_sudo() returns; base: what the base django-sudo
\* middleware's has_sudo_privileges returns for the request
Requests ==
    [user : Users, auth : AuthKinds, is_sudo : BOOLEAN, base : BOOLEAN]

Views == {"view_a", "view_b"}
Selfs == {"endpoint_1", "endpoint_2"}
ArgValues == {"x", "y"}

RECURSIVE SeqsUpTo(_, _)
SeqsUpTo(S, n) ==
    IF n = 0 THEN {<<>>}
    ELSE LET shorter == SeqsUpTo(S, n - 1)
         IN  shorter \cup {Append(s, v) : s \in {t \in shorter : Len(t) = n - 1}, v \in S}

ArgLists == SeqsUpTo(ArgValues, MaxArgs)
KwargSets == SUBSET ({"organization"} \X {"x"})

-----------------------------------------------------------------------------
(* sentry.utils.auth.is_user_password_usable *)

is_user_password_usable(user) == user.password = "usable"

-----------------------------------------------------------------------------
(* sentry.middleware.sudo *)

\* super().has_sudo_privileges(request)
BaseHasSudoPrivileges(req) == req.base

has_sudo_privileges_no_auth_check(req) ==
    IF req.user.password = "empty"
    THEN [value |-> TRUE, super_calls |-> 0]
    ELSE [value |-> BaseHasSudoPrivileges(req), super_calls |-> 1]

has_sudo_privileges_usable_test(req) ==
    IF req.user.is_authenticated /\ ~is_user_password_usable(req.user)
    THEN [value |-> TRUE, super_calls |-> 0]
    ELSE [value |-> BaseHasSudoPrivileges(req), super_calls |-> 1]

\* SudoMiddleware.has_sudo_privileges: the value returned, and how many times
\* the base method was called
has_sudo_privileges(req) ==
    IF req.user.is_authenticated /\ req.user.password = "empty"
    THEN [value |-> TRUE, super_calls |-> 0]
    ELSE [value |-> BaseHasSudoPrivileges(req), super_calls |-> 1]

-----------------------------------------------------------------------------
(* sentry.api.decorators *)

is_considered_sudo_flag_only(req) ==
    \/ req.is_sudo
    \/ req.user.is_authenticated /\ ~is_user_password_usable(req.user)

is_considered_sudo_empty_password(req) ==
    \/ req.is_sudo
    \/ req.auth = "ApiKey"
    \/ req.auth = "ApiToken"
    \/ req.user.is_authenticated /\ req.user.password = "empty"

is_considered_sudo(req) ==
    \/ req.is_sudo
    \/ req.auth = "ApiKey"
    \/ req.auth = "ApiToken"
    \/ req.user.is_authenticated /\ ~is_user_password_usable(req.user)

\* One invocation of the wrapped view, and the value the view returns for it
Invocation(func, self, req, args, kwargs) ==
    [func |-> func, self |-> self, request |-> req, args |-> args, kwargs |-> kwargs]

ViewReturn(inv) == <<"response", inv.func, inv.self, inv.args, inv.kwargs>>

\* raise exc(user): the view is not invoked and nothing is returned
Raise(exc, user) ==
    [outcome |-> "raised", exception |-> exc, exc_user |-> {user},
     invoked |-> <<>>, result |-> <<>>]

\* return func(self, request, *args, **kwargs)
Forward(func, self, req, args, kwargs) ==
    LET inv == Invocation(func, self, req, args, kwargs)
    IN  [outcome |-> "returned", exception |-> "none", exc_user |-> {},
         invoked |-> <<inv>>, result |-> <<ViewReturn(inv)>>]

sudo_required_inverted(func, self, req, args, kwargs) ==
    IF is_considered_sudo(req)
    THEN Raise("SudoRequired", req.user)
    ELSE Forward(func, self, req, args, kwargs)

sudo_required_latched(func, self, req, args, kwargs) ==
    IF ~is_considered_sudo(req) \/ "sudo_required" \in rejected
    THEN Raise("SudoRequired", req.user)
    ELSE Forward(func, self, req, args, kwargs)

\* sudo_required(func)(self, request, *args, **kwargs)
sudo_required(func, self, req, args, kwargs) ==
    IF ~is_considered_sudo(req)
    THEN Raise("SudoRequired", req.user)
    ELSE Forward(func, self, req, args, kwargs)

email_verification_required_needs_sudo(func, self, req, args, kwargs) ==
    IF req.user.verified_emails = {} \/ ~is_considered_sudo(req)
    THEN Raise("EmailVerificationRequired", req.user)
    ELSE Forward(func, self, req, args, kwargs)

\* email_verification_required(func)(self, request, *args, **kwargs);
\* get_verified_emails().exists() is "the set of verified emails is not empty"
email_verification_required(func, self, req, args, kwargs) ==
    IF ~(req.user.verified_emails # {})
    THEN Raise("EmailVerificationRequired", req.user)
    ELSE Forward(func, self, req, args, kwargs)

Decorators == {"sudo_required", "email_verification_required"}

Decorated(dec, func, self, req, args, kwargs) ==
    IF dec = "sudo_required"
    THEN sudo_required(func, self, req, args, kwargs)
    ELSE email_verification_required(func, self, req, args, kwargs)

-----------------------------------------------------------------------------
(* Actions of the request cycle *)

\* A request arrives; nothing has been computed or called for it yet
Arrive(req) ==
    /\ request' = req
    /\ mw' = <<>>
    /\ call' = <<>>
    /\ UNCHANGED <<rejected, qsVars, tagVars>>

\* The middleware computes the request's sudo status: request.is_sudo() is
\* has_sudo_privileges(request) from then on
ProcessRequest ==
    /\ mw = <<>>
    /\ call = <<>>
    /\ LET r == has_sudo_privileges(request)
       IN  /\ mw' = <<r>>
           /\ request' = [request EXCEPT !.is_sudo = r.value]
    /\ UNCHANGED <<call, rejected, qsVars, tagVars>>

\* A decorated view is called with the current request
CallView(dec, func, self, args, kwargs) ==
    LET c == Decorated(dec, func, self, request, args, kwargs)
    IN  /\ call' = <<[decorator |-> dec, func |-> func, self |-> self,
                      args |-> args, kwargs |-> kwargs] @@ c>>
        /\ rejected' = IF c.outcome = "raised" THEN rejected \cup {dec} ELSE rejected
        /\ UNCHANGED <<request, mw, qsVars, tagVars>>

\* Before any request of interest: an anonymous session request without sudo
AnonymousRequest ==
    [user |-> [is_authenticated |-> FALSE, password |-> "empty", verified_emails |-> {}],
     auth |-> "None", is_sudo |-> FALSE, base |-> FALSE]

AuthInit ==
    /\ request = AnonymousRequest
    /\ mw = <<>>
    /\ call = <<>>
    /\ rejected = {}

-----------------------------------------------------------------------------
(* sentry.db.models.manager.base_query_set *)

\* A queryset is the chain of query operations applied so far

FieldNames == {"id"}
QArgLists == SeqsUpTo(FieldNames, MaxArgs)
QKwargSets == SUBSET ({"flat"} \X {"yes"})

QueryMethods == {"filter", "values", "values_list", "defer", "only"}

\* The inherited django QuerySet method: a new queryset, the receiver's chain
\* extended by the operation
QuerySetMethod(method, q, args, kwargs) ==
    [outcome |-> "returned", exception |-> "none",
     returned |-> <<Append(q, [method |-> method, args |-> args, kwargs |-> kwargs])>>]

NotImplemented ==
    [outcome |-> "raised", exception |-> "NotImplementedError", returned |-> <<>>]

\* BaseQuerySet.defer
defer(q, args, kwargs) == NotImplemented

only_inherited(q, args, kwargs) == QuerySetMethod("only", q, args, kwargs)

\* BaseQuerySet.only
only(q, args, kwargs) == NotImplemented

\* Method lookup on BaseQuerySet: the class's own defer and only, and the
\* inherited method for every other name
BaseQuerySet(method, q, args, kwargs) ==
    IF method = "defer" THEN defer(q, args, kwargs)
    ELSE IF method = "only" THEN only(q, args, kwargs)
    ELSE QuerySetMethod(method, q, args, kwargs)

\* A method is called on the queryset the caller holds
CallQuery(method, args, kwargs) ==
    /\ Len(qs) < MaxChain
    /\ qcall' = <<[method |-> method, args |-> args, kwargs |-> kwargs,
                   receiver_before |-> qs, receiver_after |-> qs]
                  @@ BaseQuerySet(method, qs, args, kwargs)>>
    /\ UNCHANGED <<qs, authVars, tagVars>>

\* The caller goes on with the queryset the last call returned
Rebind ==
    /\ qcall # <<>>
    /\ qcall[1].returned # <<>>
    /\ qs' = qcall[1].returned[1]
    /\ qcall' = <<>>
    /\ UNCHANGED <<authVars, tagVars>>

\* The caller starts again from the manager's unrestricted queryset
Fresh ==
    /\ qs # <<>>
    /\ qs' = <<>>
    /\ qcall' = <<>>
    /\ UNCHANGED <<authVars, tagVars>>

-----------------------------------------------------------------------------
(* GET /api/0/issues/{group_id}/tags/{key}/values/ *)

Groups == {1, 2}
TagKeys == {"foo", "user"}
TagValues == {"bar", "baz"}
Sorts == {"default", "count"}

\* The "user" interface of an event: its id and its email
EventUsers ==
    {[id |-> 1, email |-> "foo@example.com"], [id |-> 2, email |-> "bar@example.com"]}

\* The data of a stored event: "tags": {"foo": value}, or "user": {...};
\* tags and user are <<>> when the data has no such entry
Events ==
    {[group |-> g, tags |-> <<[key |-> "foo", value |-> v]>>, user |-> <<>>] :
        g \in Groups, v \in TagValues}
    \cup
    {[group |-> g, tags |-> <<>>, user |-> <<u>>] : g \in Groups, u \in EventUsers}

\* The value of the synthetic user tag: id:<user_id>
UserTagValue(u) == "id:" \o ToString(u.id)

\* The value the event carries for the key, as a set: empty when it has none
EventTagValues(e, k) ==
    {e.tags[i].value : i \in {j \in 1..Len(e.tags) : e.tags[j].key = k}}
    \cup {UserTagValue(e.user[i]) : i \in {j \in 1..Len(e.user) : k = "user"}}

\* The positions of the group's events that carry the value for the key
Occurrences(evs, g, k, v) ==
    {i \in 1..Len(evs) : evs[i].group = g /\ v \in EventTagValues(evs[i], k)}

\* The distinct values the key takes among the group's events
GroupTagValues(evs, g, k) ==
    UNION {EventTagValues(evs[i], k) : i \in {j \in 1..Len(evs) : evs[j].group = g}}

Count(evs, g, k, v) == Cardinality(Occurrences(evs, g, k, v))

LastSeen(evs, g, k, v) ==
    CHOOSE i \in Occurrences(evs, g, k, v) :
        \A j \in Occurrences(evs, g, k, v) : j <= i

SortKey(evs, g, k, sort, v) ==
    IF sort = "count" THEN Count(evs, g, k, v) ELSE LastSeen(evs, g, k, v)

\* Every listing of the set, each element once
Orderings(S) ==
    {s \in [1..Cardinality(S) -> S] : \A v \in S : \E i \in 1..Cardinality(S) : s[i] = v}

SortedAscending(evs, g, k, sort) ==
    {s \in Orderings(GroupTagValues(evs, g, k)) :
        \A i, j \in 1..Len(s) :
            i < j => SortKey(evs, g, k, sort, s[i]) <= SortKey(evs, g, k, sort, s[j])}

PerEventValues(evs, g, k, sort) ==
    LET carrying == SelectSeq(evs, LAMBDA e : e.group = g /\ EventTagValues(e, k) # {})
    IN  {[i \in 1..Len(carrying) |-> CHOOSE v \in EventTagValues(carrying[i], k) : TRUE]}

\* The orders the endpoint may return the values in: descending by the sort
\* key (occurrence count, or recency), equal keys in either order
SortedTagValues(evs, g, k, sort) ==
    {s \in Orderings(GroupTagValues(evs, g, k)) :
        \A i, j \in 1..Len(s) :
            i < j => SortKey(evs, g, k, sort, s[i]) >= SortKey(evs, g, k, sort, s[j])}

\* The record returned for a value: its value and, for the user tag, the email
\* of the event user it stands for
TagValueRecord(evs, g, k, v) ==
    IF k = "user"
    THEN [value |-> v, email |-> evs[LastSeen(evs, g, k, v)].user[1].email]
    ELSE [value |-> v]

\* The groups that exist: store_event creates the group of its event
ExistingGroups(evs) == {evs[i].group : i \in 1..Len(evs)}

\* self.store_event(data=..., project_id=...)
StoreEvent(e) ==
    /\ Len(events) < MaxEvents
    /\ events' = Append(events, e)
    /\ UNCHANGED <<logged_in, response, authVars, qsVars>>

\* self.login_as(user=self.user)
LoginAs ==
    /\ ~logged_in
    /\ logged_in' = TRUE
    /\ UNCHANGED <<events, response, authVars, qsVars>>

\* self.client.get(url) by a client that is logged in
GetTagValues(g, k, sort) ==
    /\ logged_in
    /\ g \in ExistingGroups(events)
    /\ \E s \in SortedTagValues(events, g, k, sort) :
          response' = <<[status |-> 200,
                         data |-> [i \in 1..Len(s) |-> TagValueRecord(events, g, k, s[i])],
                         group |-> g, key |-> k, sort |-> sort,
                         authenticated |-> logged_in, events |-> events]>>
    /\ UNCHANGED <<events, logged_in, authVars, qsVars>>

\* self.client.get(url) by a client that is not logged in
GetUnauthenticated(g, k, sort) ==
    /\ ~logged_in
    /\ g \in ExistingGroups(events)
    /\ response' = <<[status |-> 401, data |-> <<>>,
                      group |-> g, key |-> k, sort |-> sort,
                      authenticated |-> logged_in, events |-> events]>>
    /\ UNCHANGED <<events, logged_in, authVars, qsVars>>

-----------------------------------------------------------------------------
(* Specifications: the three components share no state, and each is checked *)
(* under its own specification                                              *)

Init ==
    /\ AuthInit
    /\ qs = <<>>
    /\ qcall = <<>>
    /\ events = <<>>
    /\ logged_in = FALSE
    /\ response = <<>>

AuthNext ==
    \/ \E req \in Requests : Arrive(req)
    \/ ProcessRequest
    \/ \E dec \in Decorators, func \in Views, self \in Selfs,
          args \in ArgLists, kwargs \in KwargSets :
            CallView(dec, func, self, args, kwargs)

QuerySetNext ==
    \/ \E method \in QueryMethods, args \in QArgLists, kwargs \in QKwargSets :
          CallQuery(method, args, kwargs)
    \/ Rebind
    \/ Fresh

TagsNext ==
    \/ \E e \in Events : StoreEvent(e)
    \/ LoginAs
    \/ \E g \in Groups, k \in TagKeys, sort \in Sorts : GetTagValues(g, k, sort)
    \/ \E g \in Groups, k \in TagKeys, sort \in Sorts : GetUnauthenticated(g, k, sort)

Next == AuthNext \/ QuerySetNext \/ TagsNext

SpecAuth == Init /\ [][AuthNext]_vars
SpecQuerySet == Init /\ [][QuerySetNext]_vars
SpecTags == Init /\ [][TagsNext]_vars
Spec == Init /\ [][Next]_vars

-----------------------------------------------------------------------------
(* Properties *)

SudoCall == call # <<>> /\ call[1].decorator = "sudo_required"
EmailCall == call # <<>> /\ call[1].decorator = "email_verification_required"

\* The call raised exc carrying request.user and never invoked the view
RaisedFor(c, exc) ==
    /\ c.outcome = "raised"
    /\ c.exception = exc
    /\ c.exc_user = {request.user}
    /\ c.invoked = <<>>
    /\ c.result = <<>>

\* The call invoked the view exactly once with its own self, request, args and
\* kwargs, and returned the view's value
Forwarded(c) ==
    /\ c.outcome = "returned"
    /\ c.exception = "none"
    /\ c.exc_user = {}
    /\ Len(c.invoked) = 1
    /\ c.invoked[1] = [func |-> c.func, self |-> c.self, request |-> request,
                       args |-> c.args, kwargs |-> c.kwargs]
    /\ c.result = <<ViewReturn(c.invoked[1])>>

\* C1: a call through sudo_required raises SudoRequired(request.user) without
\* invoking the view when is_considered_sudo(request) is false, and otherwise
\* invokes the view exactly once with the same arguments and returns its value.
C1_SudoRequiredOutcome ==
    SudoCall =>
        IF ~is_considered_sudo(request)
        THEN RaisedFor(call[1], "SudoRequired")
        ELSE Forwarded(call[1])

C1_Witness ==
    /\ SudoCall
    /\ call[1].outcome = "returned"
    /\ call[1].args # <<>>
    /\ call[1].kwargs # {}

\* C2: a call through email_verification_required raises
\* EmailVerificationRequired(request.user) without invoking the view exactly
\* when the user has no verified email, and otherwise forwards; the sudo flag
\* and request.auth play no part.
C2_EmailVerificationOutcome ==
    EmailCall =>
        IF request.user.verified_emails = {}
        THEN RaisedFor(call[1], "EmailVerificationRequired")
        ELSE Forwarded(call[1])

C2_Witness ==
    /\ EmailCall
    /\ call[1].outcome = "raised"
    /\ request.is_sudo
    /\ request.auth = "ApiKey"

\* C3: a request whose auth is an ApiKey or an ApiToken is forwarded by
\* sudo_required and never gets SudoRequired, whatever is_sudo() and the user.
C3_ApiAuthIsSudo ==
    (SudoCall /\ request.auth \in {"ApiKey", "ApiToken"}) =>
        /\ is_considered_sudo(request)
        /\ Forwarded(call[1])

C3_Witness ==
    /\ SudoCall
    /\ request.auth = "ApiToken"
    /\ ~request.is_sudo
    /\ ~request.user.is_authenticated
    /\ request.user.password = "usable"
    /\ call[1].outcome = "returned"

\* C4 as stated: every request whose user has no usable password is considered
\* sudo, whatever the rest of the user's state.
C4_Original ==
    (SudoCall /\ ~is_user_password_usable(request.user)) =>
        /\ is_considered_sudo(request)
        /\ call[1].outcome = "returned"

\* C4 amended: every request whose user is authenticated and has no usable
\* password is considered sudo, and sudo_required forwards it, whatever the
\* sudo flag and request.auth.
C4_AuthenticatedPasswordlessIsSudo ==
    (SudoCall /\ request.user.is_authenticated
              /\ ~is_user_password_usable(request.user)) =>
        /\ is_considered_sudo(request)
        /\ Forwarded(call[1])

C4_Witness ==
    /\ SudoCall
    /\ request.user.is_authenticated
    /\ request.user.password = "unusable"
    /\ ~request.is_sudo
    /\ request.auth = "None"
    /\ call[1].outcome = "returned"

\* C5: has_sudo_privileges returns True without calling the base method for an
\* authenticated user with an empty password; otherwise it calls the base
\* method once and returns its result; so it is True whenever the base is.
C5_MiddlewareOverride ==
    mw # <<>> =>
        /\ IF request.user.is_authenticated /\ request.user.password = "empty"
           THEN mw[1].value = TRUE /\ mw[1].super_calls = 0
           ELSE mw[1].value = request.base /\ mw[1].super_calls = 1
        /\ request.base => mw[1].value
        /\ request.is_sudo = mw[1].value

C5_Witness ==
    /\ mw # <<>>
    /\ request.user.is_authenticated
    /\ request.user.password = "empty"
    /\ ~request.base
    /\ mw[1].value

\* C6: on a BaseQuerySet, defer and only raise NotImplementedError for every
\* argument list, return no queryset and leave the receiver as it was; every
\* other method behaves as inherited.
C6_DeferOnlyDisabled ==
    qcall # <<>> =>
        LET c == qcall[1]
        IN  /\ c.receiver_after = c.receiver_before
            /\ qs = c.receiver_before
            /\ IF c.method \in {"defer", "only"}
               THEN /\ c.outcome = "raised"
                    /\ c.exception = "NotImplementedError"
                    /\ c.returned = <<>>
               ELSE c = [method |-> c.method, args |-> c.args, kwargs |-> c.kwargs,
                         receiver_before |-> c.receiver_before,
                         receiver_after |-> c.receiver_before]
                        @@ QuerySetMethod(c.method, c.receiver_before, c.args, c.kwargs)

C6_Witness ==
    /\ qcall # <<>>
    /\ qcall[1].method = "only"
    /\ qcall[1].args # <<>>
    /\ qcall[1].kwargs # {}
    /\ qs # <<>>
    /\ qcall[1].outcome = "raised"

\* C7: with sort=count the records come in descending order of the number of
\* the group's events that carry their value.
C7_CountSortDescending ==
    (response # <<>> /\ response[1].status = 200 /\ response[1].sort = "count") =>
        LET r == response[1]
        IN  \A i, j \in 1..Len(r.data) :
                i < j => Count(r.events, r.group, r.key, r.data[i].value)
                           >= Count(r.events, r.group, r.key, r.data[j].value)

C7_Witness ==
    /\ response # <<>>
    /\ response[1].status = 200
    /\ response[1].sort = "count"
    /\ Len(response[1].data) = 2
    /\ Count(response[1].events, response[1].group, response[1].key,
             response[1].data[1].value) = 2
    /\ Count(response[1].events, response[1].group, response[1].key,
             response[1].data[2].value) = 1
    /\ LastSeen(response[1].events, response[1].group, response[1].key,
                response[1].data[2].value) = Len(response[1].events)

\* C8: for an authenticated user the endpoint answers 200 with exactly one
\* record per distinct value the key takes among the group's events: no
\* duplicates, no value that was not stored.
C8_OneRecordPerValue ==
    (response # <<>> /\ response[1].authenticated) =>
        LET r == response[1]
        IN  /\ r.status = 200
            /\ {r.data[i].value : i \in 1..Len(r.data)}
                 = GroupTagValues(r.events, r.group, r.key)
            /\ Len(r.data) = Cardinality(GroupTagValues(r.events, r.group, r.key))
            /\ \A i, j \in 1..Len(r.data) : r.data[i].value = r.data[j].value => i = j

C8_Witness ==
    /\ response # <<>>
    /\ response[1].authenticated
    /\ Len(response[1].data) = 2
    /\ Len(response[1].events) = 3
    /\ \A i \in 1..3 :
          /\ response[1].events[i].group = response[1].group
          /\ EventTagValues(response[1].events[i], response[1].key) # {}

\* C9: the decorators keep no state: whatever was rejected before, a call's
\* outcome is decided by the request and the user's state at that call; a call
\* with the sudo flag set, or by a user with a verified email, is forwarded
\* after any number of earlier rejections.
C9_NoStateBetweenCalls ==
    /\ SudoCall => (call[1].outcome = "returned" <=> is_considered_sudo(request))
    /\ (SudoCall /\ request.is_sudo) => Forwarded(call[1])
    /\ EmailCall => (call[1].outcome = "returned" <=> request.user.verified_emails # {})

C9_Witness ==
    /\ rejected = Decorators
    /\ SudoCall
    /\ request.is_sudo
    /\ request.auth = "None"
    /\ request.user.password = "usable"
    /\ call[1].outcome = "returned"

\* The request is session-authenticated and its is_sudo() was computed by
\* SudoMiddleware.has_sudo_privileges
SessionSudoCall ==
    /\ SudoCall
    /\ mw # <<>>
    /\ request.auth \notin {"ApiKey", "ApiToken"}

\* C10 as stated: for such a request sudo_required forwards exactly when
\* has_sudo_privileges returned True.
C10_Original ==
    SessionSudoCall => (call[1].outcome = "returned" <=> mw[1].value)

\* C10 amended: for such a request sudo_required forwards whenever
\* has_sudo_privileges returned True, and it forwards although
\* has_sudo_privileges returned False exactly for an authenticated user whose
\* password is not empty and not usable and whom the base check denies.
C10_MiddlewareImpliesDecorator ==
    SessionSudoCall =>
        /\ mw[1].value => Forwarded(call[1])
        /\ (call[1].outcome = "returned" /\ ~mw[1].value)
             <=> /\ request.user.is_authenticated
                 /\ request.user.password = "unusable"
                 /\ ~request.base

C10_Witness ==
    /\ SessionSudoCall
    /\ request.user.is_authenticated
    /\ request.user.password = "empty"
    /\ ~request.base
    /\ mw[1].value
    /\ call[1].outcome = "returned"

\* The events of test_simple, test_user_tag and test_count_sort, in one group
TestSimpleEvents ==
    <<[group |-> 1, tags |-> <<[key |-> "foo", value |-> "bar"]>>, user |-> <<>>]>>

TestUserTagEvents ==
    <<[group |-> 1, tags |-> <<>>, user |-> <<[id |-> 1, email |-> "foo@example.com"]>>]>>

TestCountSortEvents ==
    <<[group |-> 1, tags |-> <<>>, user |-> <<[id |-> 1, email |-> "foo@example.com"]>>],
      [group |-> 1, tags |-> <<>>, user |-> <<[id |-> 1, email |-> "foo@example.com"]>>],
      [group |-> 1, tags |-> <<>>, user |-> <<[id |-> 2, email |-> "bar@example.com"]>>]>>

\* The assertions of the three tests on the response to their request
TestsPass ==
    response # <<>> /\ response[1].authenticated /\ response[1].group = 1 =>
        LET r == response[1]
        IN  /\ (r.events = TestSimpleEvents /\ r.key = "foo") =>
                 /\ r.status = 200
                 /\ Len(r.data) = 1
                 /\ r.data[1].value = "bar"
            /\ (r.events = TestUserTagEvents /\ r.key = "user") =>
                 /\ r.status = 200
                 /\ Len(r.data) = 1
                 /\ r.data[1].email = "foo@example.com"
                 /\ r.data[1].value = "id:1"
            /\ (r.events = TestCountSortEvents /\ r.key = "user" /\ r.sort = "count") =>
                 /\ r.status = 200
                 /\ Len(r.data) = 2
                 /\ r.data[1].email = "foo@example.com"
                 /\ r.data[1].value = "id:1"
                 /\ r.data[2].email = "bar@example.com"
                 /\ r.data[2].value = "id:2"

TestCountSortReached ==
    /\ response # <<>>
    /\ response[1].status = 200
    /\ response[1].events = TestCountSortEvents
    /\ response[1].key = "user"
    /\ response[1].sort = "count"

====
